---- MODULE Spec2Model ----
(***************************************************************************)
(* The connection-log notebook part_ii_gpu_cudf.ipynb as a state machine.  *)
(* Its code cells are the actions: read_csv, the fillna loop, LIMIT, and   *)
(* the cdf_summary cell (head / apply_rows / groupby / agg).               *)
(*                                                                         *)
(* A dataframe is a sequence of rows; a row is a function from column      *)
(* names to cells.  A cell is <<>> when the value is null (NA) and <<v>>   *)
(* when it holds the value v.  A mean is the cell << <<num, den>> >> with  *)
(* num/den the fraction in lowest terms.                                   *)
(***************************************************************************)
EXTENDS Integers, Sequences, FiniteSets, TLC

VARIABLES conn_log, cdf, LIMIT, cdf_summary, pc, runs

vars == <<conn_log, cdf, LIMIT, cdf_summary, pc, runs>>

(* ------------------------------ bounds --------------------------------- *)

\* Longest log (number of lines of conn.log) the model reads.
MaxLen == 3

\* How many times the cdf_summary cell is executed in one session.
MaxRuns == 2

(* ------------------------------ cells ----------------------------------- *)

NA == <<>>

IsNull(x) == x = NA

\* names=[...] of read_csv, in file order.
Names ==
  << "time", "uid", "id.orig_h", "id.orig_p", "id.resp_h", "id.resp_p",
     "proto", "service", "duration", "orig_bytes", "resp_bytes", "conn_state",
     "local_orig", "missed_bytes", "history", "orig_pkts", "orig_ip_bytes",
     "resp_pkts", "resp_ip_bytes", "tunnel_parents" >>

\* dtype=[...] of read_csv, position by position.
Dtype ==
  << "date", "str", "str", "int", "str", "int", "str", "str",
     "int", "int", "int", "str", "str", "int",
     "str", "int", "int", "int", "int", "str" >>

Columns == {Names[i] : i \in 1..Len(Names)}

\* The dtype of each named column.
DtypeMap == [c \in Columns |-> Dtype[CHOOSE i \in 1..Len(Names) : Names[i] = c]]

DtypeOf(c) == DtypeMap[c]

\* na_values=['-']
NaValues == {"-"}

\* The decimal numerals that occur in the modelled logs, with their values.
IntOf(tok) ==
  CASE tok = "-1" -> 0 - 1
    [] tok = "0" -> 0
    [] tok = "1" -> 1
    [] tok = "2" -> 2
    [] tok = "3" -> 3
    [] tok = "5" -> 5

\* One field of one line, parsed by the column's dtype.
ParseField(c, tok) ==
  IF tok \in NaValues THEN NA
  ELSE IF DtypeOf(c) = "str" THEN <<tok>>
  ELSE <<IntOf(tok)>>

\* cudf.read_csv("./conn.log", sep="\t", header=None, names, dtype, na_values)
ReadCsv(file) ==
  [i \in 1..Len(file) |-> [c \in Columns |-> ParseField(c, file[i][c])]]

(* ------------------------------ fillna ---------------------------------- *)

\* FillnaSkip with id.resp_p added to the list.
FillnaSkipPort ==
  { "uid", "id.orig_h", "id.resp_h", "proto", "service", "conn_state",
    "history", "tunnel_parents", "local_orig", "id.resp_p" }

\* FillnaSkip with duration added to the list.
FillnaSkipDuration ==
  { "uid", "id.orig_h", "id.resp_h", "proto", "service", "conn_state",
    "history", "tunnel_parents", "local_orig", "duration" }

\* FillnaSkip with missed_bytes added to the list.
FillnaSkipMissed ==
  { "uid", "id.orig_h", "id.resp_h", "proto", "service", "conn_state",
    "history", "tunnel_parents", "local_orig", "missed_bytes" }

\* The columns the fillna loop leaves alone.
FillnaSkip ==
  { "uid", "id.orig_h", "id.resp_h", "proto", "service", "conn_state",
    "history", "tunnel_parents", "local_orig" }

\* cdf[c].fillna(0)
Fillna(x, v) == IF IsNull(x) THEN <<v>> ELSE x

\* cdf[c] = cdf[c].fillna(0): column c of every row.
FillColumn(df, c) ==
  [i \in 1..Len(df) |-> [df[i] EXCEPT ![c] = Fillna(df[i][c], 0)]]

\* One pass of the loop body for column c.
FillnaStep(df, c) == IF c \in FillnaSkip THEN df ELSE FillColumn(df, c)

\* for c in cdf.columns: ... from the k-th column on.
RECURSIVE FillnaLoop(_, _)
FillnaLoop(df, k) ==
  IF k > Len(Names) THEN df ELSE FillnaLoop(FillnaStep(df, Names[k]), k + 1)

(* ------------------------------ head ------------------------------------ *)

\* DataFrame.tail(n) in the place of head(n): the last n rows.
DfTail(df, n) ==
  IF n >= 0
  THEN SubSeq(df, (IF n < Len(df) THEN Len(df) - n ELSE 0) + 1, Len(df))
  ELSE SubSeq(df, (IF 0 - n < Len(df) THEN 0 - n ELSE Len(df)) + 1, Len(df))

\* head(n) with a negative n taken by its magnitude.
DfHeadAbs(df, n) ==
  LET m == IF n < 0 THEN 0 - n ELSE n IN
  SubSeq(df, 1, IF m < Len(df) THEN m ELSE Len(df))

\* DataFrame.head(n): the first n rows; for negative n, all but the last -n.
DfHead(df, n) ==
  IF n >= 0
  THEN SubSeq(df, 1, IF n < Len(df) THEN n ELSE Len(df))
  ELSE SubSeq(df, 1, IF Len(df) + n > 0 THEN Len(df) + n ELSE 0)

(* ------------------------------ apply_rows ------------------------------ *)

\* The row kernel passed to apply_rows: sum_bytes[i] = orig + resp.
sum_bytes(orig_bytes, resp_bytes) == orig_bytes + resp_bytes

\* apply_rows with incols=['orig_bytes', 'orig_bytes'].
ApplyRowsOrigTwice(df) ==
  [i \in 1..Len(df) |->
     [c \in (DOMAIN df[i]) \cup {"sum_bytes"} |->
        IF c = "sum_bytes"
        THEN <<sum_bytes(df[i]["orig_bytes"][1], df[i]["orig_bytes"][1])>>
        ELSE df[i][c]]]

\* .apply_rows(sum_bytes, incols=['orig_bytes', 'resp_bytes'],
\*             outcols=dict(sum_bytes=np.int64), kwargs=dict())
\* returns a new frame with the column sum_bytes added.  The column is
\* int64; the byte counts of the modelled logs stay far below 2^63.
ApplyRows(df) ==
  [i \in 1..Len(df) |->
     [c \in (DOMAIN df[i]) \cup {"sum_bytes"} |->
        IF c = "sum_bytes"
        THEN <<sum_bytes(df[i]["orig_bytes"][1], df[i]["resp_bytes"][1])>>
        ELSE df[i][c]]]

(* ------------------------------ groupby --------------------------------- *)

\* groupby(['id.orig_h', 'id.resp_h']): the connection state left out.
ByHosts == << "id.orig_h", "id.resp_h" >>

\* .groupby(['id.orig_h', 'id.resp_h', 'conn_state'])
By == << "id.orig_h", "id.resp_h", "conn_state" >>

KeyOf(r) == [j \in 1..Len(By) |-> r[By[j]]]

\* groupby's default dropna=True: a row with a null in a key column is in no group.
HasKey(r) == \A j \in 1..Len(By) : ~IsNull(r[By[j]])

GroupKeys(df) == {KeyOf(df[i]) : i \in {j \in 1..Len(df) : HasKey(df[j])}}

GroupRows(df, k) == SelectSeq(df, LAMBDA r : KeyOf(r) = k)

(* ------------------------------ agg ------------------------------------- *)

\* The dictionary passed to .agg, entry by entry.
AggDict ==
  << <<"time",       <<"min", "max", "count">> >>,
     <<"id.resp_p",  <<"count">> >>,
     <<"uid",        <<"count">> >>,
     <<"duration",   <<"min", "max", "mean">> >>,
     <<"orig_bytes", <<"min", "max", "sum", "mean">> >>,
     <<"resp_bytes", <<"min", "max", "sum", "mean">> >>,
     <<"sum_bytes",  <<"min", "max", "sum", "mean">> >> >>

\* The (column, reduction) pairs of the result's columns.
AggPairs ==
  UNION { { <<AggDict[i][1], AggDict[i][2][j]>> : j \in 1..Len(AggDict[i][2]) }
          : i \in 1..Len(AggDict) }

Col(df, c) == [i \in 1..Len(df) |-> df[i][c]]

\* The reductions skip nulls.
NonNull(xs) == SelectSeq(xs, LAMBDA x : ~IsNull(x))

RECURSIVE SeqSum(_)
SeqSum(xs) == IF Len(xs) = 0 THEN 0 ELSE xs[1][1] + SeqSum(Tail(xs))

\* The minimum taken to be the first value.
SeqMinFirst(xs) == xs[1][1]

RECURSIVE SeqMin(_)
SeqMin(xs) ==
  IF Len(xs) = 1 THEN xs[1][1]
  ELSE LET m == SeqMin(Tail(xs)) IN IF xs[1][1] < m THEN xs[1][1] ELSE m

RECURSIVE SeqMax(_)
SeqMax(xs) ==
  IF Len(xs) = 1 THEN xs[1][1]
  ELSE LET m == SeqMax(Tail(xs)) IN IF xs[1][1] > m THEN xs[1][1] ELSE m

Abs(n) == IF n < 0 THEN 0 - n ELSE n

RECURSIVE GCD(_, _)
GCD(a, b) == IF b = 0 THEN a ELSE GCD(b, a % b)

\* The quotient s / n (n > 0) as a fraction in lowest terms.
Frac(s, n) == LET g == GCD(Abs(s), n) IN <<s \div g, n \div g>>

\* The mean with the divisor off by one.
MeanOffByOne(xs) == Frac(SeqSum(xs), Len(xs) + 1)

Mean(xs) == Frac(SeqSum(xs), Len(xs))

\* One reduction over one column of one group.
Reduce(op, xs) ==
  LET vs == NonNull(xs) IN
  IF op = "count" THEN <<Len(vs)>>
  ELSE IF Len(vs) = 0 THEN NA
  ELSE CASE op = "min"  -> <<SeqMin(vs)>>
         [] op = "max"  -> <<SeqMax(vs)>>
         [] op = "sum"  -> <<SeqSum(vs)>>
         [] op = "mean" -> <<Mean(vs)>>

\* The result row of the group with key k.
SummaryRow(df, k) ==
  [ key |-> k,
    agg |-> [p \in AggPairs |-> Reduce(p[2], Col(GroupRows(df, k), p[1]))] ]

\* .groupby(By).agg(AggDict): one row per group; the row order is unspecified.
GroupByAgg(df) == {SummaryRow(df, k) : k \in GroupKeys(df)}

\* The cdf_summary cell's right-hand side.
Summarize(df, limit) == GroupByAgg(ApplyRows(DfHead(df, limit)))

\* The cell truncating cdf itself: cdf = cdf.head(LIMIT).
CdfTruncated(df, limit) == DfHead(df, limit)

\* What the name cdf is bound to after the cdf_summary cell: head and
\* apply_rows return new frames and the cell assigns cdf_summary only.
CdfAfterSummary(df, limit) == df

(* ------------------------- partial accumulators ------------------------ *)
(* The map-reduce discipline of the design: each partition of the input    *)
(* yields, per group and column, the running count, sum, min and max; the  *)
(* partial results are merged by key.                                      *)

AggColumns == {p[1] : p \in AggPairs}

\* The running values a reduction needs.
BaseOf(op) == IF op = "mean" THEN {"sum", "count"} ELSE {op}

\* The running values kept for column c.
AccStats(c) == UNION {BaseOf(p[2]) : p \in {q \in AggPairs : q[1] = c}}

\* The accumulator of no value.
AccEmpty(c) == [st \in AccStats(c) |-> IF st = "count" THEN <<0>> ELSE NA]

\* The accumulator of one cell; a null cell adds nothing.
AccOfCell(c, x) ==
  IF IsNull(x) THEN AccEmpty(c)
  ELSE [st \in AccStats(c) |-> IF st = "count" THEN <<1>> ELSE x]

\* counts added, sum-of-sums, min-of-mins, max-of-maxes.
Combine(st, a, b) ==
  IF st = "count" THEN <<a[1] + b[1]>>
  ELSE IF IsNull(a) THEN b
  ELSE IF IsNull(b) THEN a
  ELSE CASE st = "sum" -> <<a[1] + b[1]>>
         [] st = "min" -> IF a[1] <= b[1] THEN a ELSE b
         [] st = "max" -> IF a[1] >= b[1] THEN a ELSE b

MergeAcc(c, a, b) == [st \in AccStats(c) |-> Combine(st, a[st], b[st])]

RECURSIVE AccOfCells(_, _)
\* One pass over the cells of column c of one group.
AccOfCells(c, xs) ==
  IF Len(xs) = 0 THEN AccEmpty(c)
  ELSE MergeAcc(c, AccOfCell(c, xs[1]), AccOfCells(c, Tail(xs)))

\* The partial result of one partition: group key -> column -> accumulator.
Partial(part) ==
  [k \in GroupKeys(part) |->
     [c \in AggColumns |-> AccOfCells(c, Col(GroupRows(part, k), c))]]

\* Two partial results merged by key.
MergePartials(a, b) ==
  [k \in (DOMAIN a) \cup (DOMAIN b) |->
     IF k \in DOMAIN a /\ k \in DOMAIN b
     THEN [c \in AggColumns |-> MergeAcc(c, a[k][c], b[k][c])]
     ELSE IF k \in DOMAIN a THEN a[k] ELSE b[k]]

\* A reduction read off an accumulator; mean = sum / count where count > 0.
Finish(op, acc) ==
  IF op = "mean"
  THEN (IF acc["count"][1] = 0 THEN NA ELSE <<Frac(acc["sum"][1], acc["count"][1])>>)
  ELSE acc[op]

\* The summary records of a merged result.
Finalize(m) ==
  { [ key |-> k, agg |-> [p \in AggPairs |-> Finish(p[2], m[k][p[1]])] ]
    : k \in DOMAIN m }

(* ------------------------------ inputs ---------------------------------- *)

\* LIMIT = 12000000
SourceLIMIT == 12000000

\* The values the LIMIT cell is edited to.
LimitValues == ((0 - MaxLen) .. MaxLen) \cup {SourceLIMIT}

\* A complete line of conn.log.
DefaultLine ==
  [c \in Columns |->
     CASE c = "time" -> "1"
       [] c = "uid" -> "u"
       [] c = "id.orig_h" -> "A"
       [] c = "id.resp_h" -> "B"
       [] c = "proto" -> "tcp"
       [] c = "service" -> "-"
       [] c = "duration" -> "2"
       [] c = "orig_bytes" -> "5"
       [] c = "resp_bytes" -> "3"
       [] c = "conn_state" -> "SF"
       [] c = "local_orig" -> "-"
       [] c = "history" -> "S"
       [] c = "tunnel_parents" -> "-"
       [] OTHER -> "1"]

\* Lines that differ in the endpoints and the connection state.
KeyLines ==
  { [DefaultLine EXCEPT !["id.orig_h"] = o, !["id.resp_h"] = r, !["conn_state"] = s]
    : o \in {"A", "C"}, r \in {"B", "-"}, s \in {"SF", "S0"} } \
  { [DefaultLine EXCEPT !["id.orig_h"] = "C", !["id.resp_h"] = "-", !["conn_state"] = s]
    : s \in {"SF", "S0"} }

\* Lines that differ in the counted columns.
CountLines ==
  { [DefaultLine EXCEPT !["conn_state"] = s, !["uid"] = m[1],
                        !["id.resp_p"] = m[2], !["time"] = m[3]]
    : s \in {"SF", "S0"},
      m \in { <<"u", "1", "2">>, <<"-", "1", "2">>,
              <<"u", "-", "2">>, <<"u", "1", "-">> } } \
  { [DefaultLine EXCEPT !["conn_state"] = "S0", !["uid"] = m[1],
                        !["id.resp_p"] = m[2], !["time"] = m[3]]
    : m \in { <<"u", "-", "2">>, <<"u", "1", "-">> } }

\* Lines that differ in the duration.
DurationLines ==
  { [DefaultLine EXCEPT !["conn_state"] = s, !["duration"] = d]
    : s \in {"SF", "S0"}, d \in {"-", "-1", "2"} } \
  { [DefaultLine EXCEPT !["conn_state"] = "S0", !["duration"] = "-1"] }

\* Lines that differ in the byte counts.
BytesLines ==
  { [DefaultLine EXCEPT !["conn_state"] = s, !["orig_bytes"] = o, !["resp_bytes"] = r]
    : s \in {"SF", "S0"}, o \in {"-", "5"}, r \in {"-", "3"} } \
  { [DefaultLine EXCEPT !["conn_state"] = "S0", !["orig_bytes"] = "-", !["resp_bytes"] = r]
    : r \in {"-", "3"} }

\* The columns read with dtype int.
IntColumns == {c \in Columns : DtypeOf(c) = "int"}

\* The integer columns, duration apart.
CounterColumns == IntColumns \ {"duration"}

\* Lines in which every integer column is present or missing independently.
WideLines ==
  { [c \in Columns |->
       IF c \in CounterColumns THEN f[c]
       ELSE IF c = "duration" THEN d
       ELSE IF c = "service" THEN sv
       ELSE DefaultLine[c]]
    : f \in [CounterColumns -> {"-", "1"}], d \in {"-", "-1", "2"}, sv \in {"-", "http"} }

\* The logs of at most MaxLen lines over a set of lines.
Logs(lines) == UNION {[1..n -> lines] : n \in 0..MaxLen}

(* ------------------------------ the notebook ---------------------------- *)

InitWith(logs) ==
  /\ conn_log \in logs
  /\ cdf = <<>>
  /\ LIMIT = 0
  /\ cdf_summary = {}
  /\ pc = "read_csv"
  /\ runs = 0

Init == InitWith(Logs(KeyLines))

InitCounts == InitWith(Logs(CountLines))

InitDuration == InitWith(Logs(DurationLines))

InitBytes == InitWith(Logs(BytesLines))

InitWide == InitWith({<<l>> : l \in WideLines})

\* cdf = cudf.read_csv("./conn.log", ...)
ReadCsvCell ==
  /\ pc = "read_csv"
  /\ cdf' = ReadCsv(conn_log)
  /\ pc' = "fillna"
  /\ UNCHANGED <<conn_log, LIMIT, cdf_summary, runs>>

\* #fillna: for c in cdf.columns: ...
FillnaCell ==
  /\ pc = "fillna"
  /\ cdf' = FillnaLoop(cdf, 1)
  /\ pc' = "LIMIT"
  /\ UNCHANGED <<conn_log, LIMIT, cdf_summary, runs>>

\* LIMIT = ...
LimitCell ==
  /\ pc = "LIMIT"
  /\ \E l \in LimitValues : LIMIT' = l
  /\ pc' = "cdf_summary"
  /\ UNCHANGED <<conn_log, cdf, cdf_summary, runs>>

\* cdf_summary = cdf.head(LIMIT).apply_rows(...).groupby(...).agg(...)
\* The cell can be executed again.
SummaryCell ==
  /\ pc = "cdf_summary"
  /\ runs < MaxRuns
  /\ cdf_summary' = Summarize(cdf, LIMIT)
  /\ cdf' = CdfAfterSummary(cdf, LIMIT)
  /\ runs' = runs + 1
  /\ UNCHANGED <<conn_log, LIMIT, pc>>

Next == ReadCsvCell \/ FillnaCell \/ LimitCell \/ SummaryCell

Spec == Init /\ [][Next]_vars

SpecCounts == InitCounts /\ [][Next]_vars

SpecDuration == InitDuration /\ [][Next]_vars

SpecBytes == InitBytes /\ [][Next]_vars

SpecWide == InitWide /\ [][Next]_vars

(* ------------------------------ the claims ------------------------------ *)

\* The parsed records of the log, before normalization.
Records == ReadCsv(conn_log)

\* The cdf_summary cell has run.
Summarized == pc = "cdf_summary" /\ runs >= 1

\* records[:limit], the Python slice.
Slice(recs, limit) ==
  LET n == Len(recs)
      e == IF limit >= 0 THEN (IF limit < n THEN limit ELSE n)
           ELSE (IF n + limit > 0 THEN n + limit ELSE 0)
  IN [i \in 1..e |-> recs[i]]

\* The GroupKey of a record: (origin host, responder host, connection state).
GroupKey(r) == << r["id.orig_h"], r["id.resp_h"], r["conn_state"] >>

KeyPresent(k) == \A j \in 1..3 : k[j] # NA

\* The positions of the records of recs that belong to the group k.
Members(recs, k) == {i \in 1..Len(recs) : GroupKey(recs[i]) = k}

\* The GroupKeys occurring in recs.
KeysIn(recs) == {GroupKey(recs[i]) : i \in 1..Len(recs)}

PresentKeysIn(recs) == {k \in KeysIn(recs) : KeyPresent(k)}

RowsOf(k) == {s \in cdf_summary : s.key = k}

Stat(s, c, op) == s.agg[<<c, op>>]

RECURSIVE SumOver(_, _, _)
\* The sum of column c over the positions I of recs, a missing value counting zero.
SumOver(recs, I, c) ==
  IF I = {} THEN 0
  ELSE LET i == CHOOSE j \in I : TRUE
       IN (IF recs[i][c] = NA THEN 0 ELSE recs[i][c][1]) + SumOver(recs, I \ {i}, c)

\* C1 as stated: exactly one summary record per distinct GroupKey occurring
\* in records[:limit], a key with a missing field included; no group is
\* dropped, none is emitted twice, and nothing else is emitted.
C1_OneSummaryPerKey ==
  Summarized =>
    /\ \A k \in KeysIn(Slice(Records, LIMIT)) : Cardinality(RowsOf(k)) = 1
    /\ \A s \in cdf_summary : s.key \in KeysIn(Slice(Records, LIMIT))

\* C1 amended: exactly one summary record per distinct GroupKey of
\* records[:limit] whose three fields are all present; every summary record
\* carries such a key, and a record with a missing key field forms no group.
\* An empty input gives no group.
C1_OneSummaryPerPresentKey ==
  Summarized =>
    /\ \A k \in PresentKeysIn(Slice(Records, LIMIT)) : Cardinality(RowsOf(k)) = 1
    /\ \A s \in cdf_summary : s.key \in PresentKeysIn(Slice(Records, LIMIT))
    /\ Cardinality(cdf_summary) = Cardinality(PresentKeysIn(Slice(Records, LIMIT)))
    /\ (Len(Records) = 0 => cdf_summary = {})

\* Two groups that differ in the connection state only, after a truncation
\* that cut a record off.
C1_Witness ==
  /\ Summarized
  /\ Len(Slice(Records, LIMIT)) < Len(Records)
  /\ \E s, t \in cdf_summary :
       /\ s.key[1] = t.key[1] /\ s.key[2] = t.key[2] /\ s.key[3] # t.key[3]

\* C2: the summary of the first `limit` records equals the summary of the
\* prefix records[:limit] taken with limit = len(records), and a limit at or
\* above the record count truncates nothing.
C2_TruncationCommutes ==
  Summarized =>
    /\ cdf_summary = Summarize(Slice(cdf, LIMIT), Len(cdf))
    /\ (LIMIT >= Len(cdf) => cdf_summary = GroupByAgg(ApplyRows(cdf)))

\* A truncation that removed a whole group.
C2_Witness ==
  /\ Summarized
  /\ LIMIT > 0
  /\ LIMIT < Len(cdf)
  /\ cdf_summary # {}
  /\ Cardinality(cdf_summary) < Cardinality(GroupByAgg(ApplyRows(cdf)))

\* C3 as stated: every limit <= 0 gives an empty output.
C3_NonPositiveLimitEmpty ==
  (Summarized /\ LIMIT <= 0) => cdf_summary = {}

\* C3 amended: limit = 0, and a negative limit -k with k >= len(records),
\* give an empty output; a negative limit -k with k < len(records) processes
\* the first len(records) - k records.
C3_HeadOfNonPositiveLimit ==
  (Summarized /\ LIMIT <= 0) =>
    /\ (LIMIT = 0 \/ 0 - LIMIT >= Len(cdf)) => cdf_summary = {}
    /\ (LIMIT < 0 /\ 0 - LIMIT < Len(cdf)) =>
         cdf_summary = GroupByAgg(ApplyRows(SubSeq(cdf, 1, Len(cdf) + LIMIT)))

\* A negative limit that leaves records to summarize.
C3_Witness ==
  /\ Summarized
  /\ LIMIT < 0
  /\ cdf_summary # {}

\* C4 as stated: count(uid), count(id.resp_p) and count(time) all equal the
\* number of records of the truncated input in the group.
C4_CountsEqualGroupSize ==
  Summarized =>
    \A s \in cdf_summary :
      LET n == Cardinality(Members(Slice(Records, LIMIT), s.key)) IN
      /\ Stat(s, "uid", "count") = <<n>>
      /\ Stat(s, "id.resp_p", "count") = <<n>>
      /\ Stat(s, "time", "count") = <<n>>

\* C4 amended: count(id.resp_p) and count(time) equal the number of records
\* of the truncated input in the group, a missing port or timestamp included;
\* count(uid) is the number of those records whose uid is present.
C4_CountsOfFilledColumns ==
  Summarized =>
    \A s \in cdf_summary :
      LET recs == Slice(Records, LIMIT)
          I == Members(recs, s.key)
      IN /\ Stat(s, "id.resp_p", "count") = <<Cardinality(I)>>
         /\ Stat(s, "time", "count") = <<Cardinality(I)>>
         /\ Stat(s, "uid", "count") = <<Cardinality({i \in I : recs[i]["uid"] # NA})>>

\* A group with a missing uid, a missing port and a missing timestamp.
C4_Witness ==
  /\ Summarized
  /\ \E s \in cdf_summary :
       LET recs == Slice(Records, LIMIT)
           I == Members(recs, s.key)
       IN /\ \E i \in I : recs[i]["uid"] = NA
          /\ \E i \in I : recs[i]["id.resp_p"] = NA
          /\ \E i \in I : recs[i]["time"] = NA

\* C5 as stated: the duration mean is over the non-null durations, and is
\* undefined (never a number) when every duration of the group is missing.
C5_MeanOverNonNullDurations ==
  Summarized =>
    \A s \in cdf_summary :
      LET recs == Slice(Records, LIMIT)
          I == Members(recs, s.key)
          P == {i \in I : recs[i]["duration"] # NA}
      IN IF P = {} THEN Stat(s, "duration", "mean") = NA
         ELSE Stat(s, "duration", "mean") =
                << Frac(SumOver(recs, P, "duration"), Cardinality(P)) >>

\* C5 amended: the duration mean is over all the records of the group, a
\* missing duration counting as zero; a group whose durations are all missing
\* has the duration mean zero.
C5_MeanOverFilledDurations ==
  Summarized =>
    \A s \in cdf_summary :
      LET recs == Slice(Records, LIMIT)
          I == Members(recs, s.key)
          P == {i \in I : recs[i]["duration"] # NA}
      IN /\ Stat(s, "duration", "mean") =
              << Frac(SumOver(recs, I, "duration"), Cardinality(I)) >>
         /\ (P = {} => Stat(s, "duration", "mean") = << <<0, 1>> >>)

\* A group whose durations are all missing, and one with a missing and a
\* non-zero duration.
C5_Witness ==
  /\ Summarized
  /\ LET recs == Slice(Records, LIMIT) IN
     /\ \E s \in cdf_summary :
          \A i \in Members(recs, s.key) : recs[i]["duration"] = NA
     /\ \E s \in cdf_summary :
          /\ \E i \in Members(recs, s.key) : recs[i]["duration"] = NA
          /\ \E i \in Members(recs, s.key) : recs[i]["duration"] \notin {NA, <<0>>}

\* C6: in every group sum(total_bytes) = sum(orig_bytes) + sum(resp_bytes)
\* over the group's normalized records, a missing byte count being zero.
C6_SumOfTotalBytes ==
  Summarized =>
    \A s \in cdf_summary :
      LET recs == Slice(Records, LIMIT)
          I == Members(recs, s.key)
      IN /\ Stat(s, "sum_bytes", "sum") =
              << SumOver(recs, I, "orig_bytes") + SumOver(recs, I, "resp_bytes") >>
         /\ Stat(s, "sum_bytes", "sum")[1] =
              Stat(s, "orig_bytes", "sum")[1] + Stat(s, "resp_bytes", "sum")[1]

\* A group with a missing orig_bytes, a missing resp_bytes and a positive sum.
C6_Witness ==
  /\ Summarized
  /\ \E s \in cdf_summary :
       LET recs == Slice(Records, LIMIT)
           I == Members(recs, s.key)
       IN /\ \E i \in I : recs[i]["orig_bytes"] = NA /\ recs[i]["resp_bytes"] # NA
          /\ \E i \in I : recs[i]["resp_bytes"] = NA /\ recs[i]["orig_bytes"] # NA
          /\ Stat(s, "sum_bytes", "sum")[1] > 0

\* The numeric fields: the columns read with dtype int.  None of them is a
\* key field or one of the string fields the normalization leaves out.
NumericFields == IntColumns

\* The fillna cell has run.
Normalized == pc \in {"LIMIT", "cdf_summary"}

\* C7: after normalization every numeric field holds zero where the value
\* was missing and its value otherwise, and every numeric field except
\* duration is non-negative when the record's present values are.
C7_MissingNumericIsZero ==
  Normalized =>
    \A i \in 1..Len(cdf) : \A c \in NumericFields :
      /\ cdf[i][c] = (IF Records[i][c] = NA THEN <<0>> ELSE Records[i][c])
      /\ ( /\ c # "duration"
           /\ \A d \in NumericFields \ {"duration"} :
                Records[i][d] = NA \/ Records[i][d][1] >= 0 )
         => cdf[i][c][1] >= 0

\* A record with a missing and a present counter, a negative duration and a
\* missing string field that stays missing.
C7_Witness ==
  /\ Normalized
  /\ \E i \in 1..Len(cdf) :
       /\ Records[i]["missed_bytes"] = NA
       /\ Records[i]["orig_pkts"] # NA
       /\ Records[i]["duration"] = <<0 - 1>>
       /\ Records[i]["service"] = NA
       /\ cdf[i]["service"] = NA

\* C8: in every group with at least one non-null duration,
\* min(duration) <= mean(duration) <= max(duration).
C8_MeanBetweenMinAndMax ==
  Summarized =>
    \A s \in cdf_summary :
      LET recs == Slice(Records, LIMIT)
          mean == Stat(s, "duration", "mean")[1]
      IN (\E i \in Members(recs, s.key) : recs[i]["duration"] # NA) =>
           /\ Stat(s, "duration", "min")[1] * mean[2] <= mean[1]
           /\ mean[1] <= Stat(s, "duration", "max")[1] * mean[2]

\* A group with a negative, a positive and a missing duration.
C8_Witness ==
  /\ Summarized
  /\ \E s \in cdf_summary :
       LET recs == Slice(Records, LIMIT)
           I == Members(recs, s.key)
       IN /\ \E i \in I : recs[i]["duration"] = <<0 - 1>>
          /\ \E i \in I : recs[i]["duration"] = <<2>>
          /\ \E i \in I : recs[i]["duration"] = NA
          /\ Stat(s, "duration", "min") # Stat(s, "duration", "max")

MaxOf(S) == IF S = {} THEN 0 ELSE CHOOSE x \in S : \A y \in S : y <= x

\* The ways of splitting n rows into non-empty partitions: f[i] is the
\* partition of row i, the partitions numbered in order of first appearance.
Splits(n) ==
  { f \in [1..n -> 1..n] :
      \A i \in 1..n : f[i] <= 1 + MaxOf({f[j] : j \in 1..(i - 1)}) }

\* The rows of df that the split f puts in partition j, in arrival order.
Part(df, f, j) ==
  LET RECURSIVE Pick(_)
      Pick(i) == IF i > Len(df) THEN <<>>
                 ELSE (IF f[i] = j THEN <<df[i]>> ELSE <<>>) \o Pick(i + 1)
  IN Pick(1)

\* The orders in which m partial results can be merged.
Orders(m) == {o \in [1..m -> 1..m] : \A i, j \in 1..m : o[i] = o[j] => i = j}

\* The partial results of the split f of df, merged in the order o.
MergedInOrder(df, f, o) ==
  LET RECURSIVE Upto(_)
      Upto(i) == IF i = 0 THEN << >>
                 ELSE MergePartials(Upto(i - 1), Partial(Part(df, f, o[i])))
  IN Upto(Len(o))

\* C9: for every split of the truncated input into partitions and every
\* merge order, the merged partial accumulators give the summary records of
\* the single pass.
C9_MergedPartialsEqualSinglePass ==
  (Summarized /\ runs = 1) =>
    LET df == ApplyRows(DfHead(cdf, LIMIT)) IN
    \A f \in Splits(Len(df)) :
      \A o \in Orders(MaxOf({f[i] : i \in 1..Len(df)})) :
        Finalize(MergedInOrder(df, f, o)) = cdf_summary

\* A truncated input of three records or more holding two groups, one of
\* them with two different durations, one of which was missing.
C9_Witness ==
  /\ Summarized
  /\ Len(DfHead(cdf, LIMIT)) >= 3
  /\ Cardinality(cdf_summary) = 2
  /\ \E s \in cdf_summary :
       /\ Stat(s, "duration", "min") # Stat(s, "duration", "max")
       /\ \E i \in Members(Slice(Records, LIMIT), s.key) :
            Slice(Records, LIMIT)[i]["duration"] = NA

====
